---------------------------- MODULE Spec2Model ----------------------------
(***************************************************************************)
(* A model of the news aggregation prototypes:                             *)
(*   app.py   fetch_news and its helpers (extract_names_from_text,         *)
(*            get_city, generate_summary, the article extractors),         *)
(*   main.py  get_news and its helpers,                                    *)
(*   main2.py get_city_news (the freeform line parser).                    *)
(* Python strings are sequences of one-character strings, so that lower(), *)
(* strip(), replace(), split() and the `in` substring test are computed.   *)
(***************************************************************************)
EXTENDS Integers, Sequences, FiniteSets, TLC

VARIABLES
    \* fetch_news (app.py) / get_news (main.py)
    prog,            \* which of the two programs runs
    web,             \* the article pages that are not GoodPage, by URL
    faults,          \* deviations from the nominal environment so far
    pc,              \* "listing", "loop", "done", "raised"
    src,             \* the source being scraped
    all_urls,        \* the candidate URLs of the current source
    idx,             \* position of the for loop in all_urls
    valid_urls,      \* successful records of the current source
    news_items,      \* the result list
    requests,        \* history: the article URLs requested, in order
    listing,         \* history: each source's listing outcome and candidates
    last_responses,  \* history: the LLM answers behind the last record
    \* one call of a pure function
    fn, arg_text, arg_response, ret,
    \* get_city_news (main2.py)
    p_pc,            \* "idle", "start", "parse", "returned", "responded"
    p_city,          \* the query's city parameter
    p_result_text,   \* result_text: response.text.strip()
    lines,           \* the non-blank lines of result_text
    li,              \* position of the for loop in lines
    current,         \* the record under construction
    current_at,      \* the positions of parsed_news holding that same dict
    parsed_news,     \* the records emitted so far
    returned,        \* the value the handler returns
    sent             \* the HTTP response made of it through NewsResponse

aggVars ==
    <<prog, web, faults, pc, src, all_urls, idx, valid_urls, news_items,
      requests, listing, last_responses>>

fnVars == <<fn, arg_text, arg_response, ret>>

parseVars ==
    <<p_pc, p_city, p_result_text, lines, li, current, current_at,
      parsed_news, returned, sent>>

vars == <<aggVars, fnVars, parseVars>>

(***************************************************************************)
(* Bounds of the model.                                                    *)
(***************************************************************************)
MaxItems == 2      \* longest city / locality list the LLM answers with
MaxTextLen == 4    \* longest raw article text fed to the normalisation
MaxLines == 3      \* most lines of a freeform answer built from the line pool
MaxFaults == 1     \* deviations from the nominal web and LLM answers per run
Extra == 2         \* links a long listing page has beyond the source's cap
ShortLen == 2      \* links of a short listing page

(***************************************************************************)
(* Python strings.                                                         *)
(***************************************************************************)
UpperAlpha ==
    <<"A", "B", "C", "D", "E", "F", "G", "H", "I", "J", "K", "L", "M",
      "N", "O", "P", "Q", "R", "S", "T", "U", "V", "W", "X", "Y", "Z">>

LowerAlpha ==
    <<"a", "b", "c", "d", "e", "f", "g", "h", "i", "j", "k", "l", "m",
      "n", "o", "p", "q", "r", "s", "t", "u", "v", "w", "x", "y", "z">>

\* str.lower() on one character
LowerChar(c) ==
    IF \E i \in 1..26 : UpperAlpha[i] = c
    THEN LowerAlpha[CHOOSE i \in 1..26 : UpperAlpha[i] = c]
    ELSE c

\* F applied to the value of x
Apply(F(_), x) == CHOOSE r \in {F(v) : v \in {x}} : TRUE

\* F applied to the values of x and y
Apply2(F(_, _), x, y) == CHOOSE r \in {F(v, w) : v \in {x}, w \in {y}} : TRUE

\* str.lower()
Lower(s) == [i \in 1..Len(s) |-> Apply(LowerChar, s[i])]

\* the characters str.strip() removes when called without an argument
Whitespace == {" ", "\n", "\t", "\r", "\f"}

\* str.lstrip(chars) / str.rstrip(chars) / str.strip(chars)
RECURSIVE LStripChars(_, _)
LStripChars(s, chars) ==
    IF s # <<>> /\ Head(s) \in chars THEN LStripChars(Tail(s), chars) ELSE s

RECURSIVE RStripChars(_, _)
RStripChars(s, chars) ==
    IF s # <<>> /\ s[Len(s)] \in chars
    THEN RStripChars(SubSeq(s, 1, Len(s) - 1), chars)
    ELSE s

StripChars(s, chars) ==
    LET L(x) == LStripChars(x, chars)
        R(x) == RStripChars(x, chars)
    IN Apply(R, Apply(L, s))

Strip(s) == StripChars(s, Whitespace)

\* whether pat occurs in s at position i
MatchAt(s, pat, i) ==
    /\ i + Len(pat) - 1 <= Len(s)
    /\ \A k \in 1..Len(pat) : s[i + k - 1] = pat[k]

\* Python's `pat in s` on strings
Contains(s, pat) == \E i \in 1..(Len(s) + 1) : MatchAt(s, pat, i)

\* str.replace(pat, "") for a non-empty pat: leftmost, non-overlapping
RECURSIVE RemoveAll(_, _)
RemoveAll(s, pat) ==
    IF s = <<>> THEN <<>>
    ELSE IF MatchAt(s, pat, 1)
         THEN RemoveAll(SubSeq(s, Len(pat) + 1, Len(s)), pat)
         ELSE <<Head(s)>> \o RemoveAll(Tail(s), pat)

\* re.sub(r"[...]", "", s): delete every character of a class
RemoveChars(s, chars) ==
    LET NotIn(c) == c \notin chars IN SelectSeq(s, NotIn)

\* the character class of r"[\([{})\]]"
Brackets == {"(", ")", "[", "]", "{", "}"}

S_unknown == <<"u", "n", "k", "n", "o", "w", "n">>
S_Unknown == <<"U", "n", "k", "n", "o", "w", "n">>
S_Delhi == <<"D", "e", "l", "h", "i">>
S_Sector == <<"S", "e", "c", "4", "5">>
S_civic == <<"c", "i", "v", "i", "c">>

\* datetime.now().strftime("%Y-%m-%d"): the run's current date
Today == "today"

(***************************************************************************)
(* The text normalisation of the article extractors.                       *)
(***************************************************************************)
\* strip() applied before the brackets are deleted
NormalizeText_StripFirst(text) ==
    LET DropNewlines(s) == RemoveAll(s, <<"\n">>)
        DropBrackets(s) == RemoveChars(s, Brackets)
    IN Apply(DropBrackets, Apply(Strip, Apply(DropNewlines, text)))

\* text.replace("\n", ''), re.sub(brackets, ""), .strip()
NormalizeText(text) ==
    LET DropNewlines(s) == RemoveAll(s, <<"\n">>)
        DropBrackets(s) == RemoveChars(s, Brackets)
    IN Apply(Strip, Apply(DropBrackets, Apply(DropNewlines, text)))

(***************************************************************************)
(* JSON values as json.loads returns them.  A value is a string, a number, *)
(* null, or a list whose items are strings, numbers or nulls.              *)
(***************************************************************************)
StrE(s) == [t |-> "str", s |-> s]
NumE(s) == [t |-> "num", s |-> s]
NullE == [t |-> "null", s |-> <<>>]

StrV(s) == [t |-> "str", s |-> s, items |-> <<>>]
NumV(s) == [t |-> "num", s |-> s, items |-> <<>>]
NullV == [t |-> "null", s |-> <<>>, items |-> <<>>]
ListV(items) == [t |-> "list", s |-> <<>>, items |-> items]

\* Python truthiness of a decoded value
Truthy(v) ==
    CASE v.t = "null" -> FALSE
      [] v.t = "num" -> v.s # <<"0">>
      [] v.t = "str" -> v.s # <<>>
      [] v.t = "list" -> v.items # <<>>

\* whether `for x in v` raises TypeError
IterRaises(v) == v.t \in {"num", "null"}

\* the items `for x in v` yields: a list's items, a string's characters
IterItems(v) ==
    IF v.t = "str" THEN [i \in 1..Len(v.s) |-> StrE(<<v.s[i]>>)] ELSE v.items

\* outcomes of a call: a returned value or a raised exception
Ok(v) == [exc |-> FALSE, val |-> v]
Raised == [exc |-> TRUE, val |-> NullV]

\* a decoded top-level JSON document: an object with some of the keys the
\* prompts ask for, or anything else (a list, a string, a number, null)
Dict(has, city, locality, news_type) ==
    [t |-> "dict", has |-> has, city |-> city, locality |-> locality,
     news_type |-> news_type, v |-> NullV]

\* a document that is the value v and no object
Other(v) ==
    [t |-> "other", has |-> {}, city |-> NullV, locality |-> NullV,
     news_type |-> NullV, v |-> v]

NotADict == Other(NullV)

\* dict.get(key, default)
Get(result, key, default) ==
    IF key \in result.has THEN result[key] ELSE default

\* an answer of gemini_client.models.generate_content to a JSON prompt:
\* the call raises, response.text is None, the text is not JSON, or the
\* text is the JSON document `json`
LLMError == [kind |-> "error", json |-> NotADict]
LLMNoText == [kind |-> "no_text", json |-> NotADict]
LLMNotJson == [kind |-> "not_json", json |-> NotADict]
LLMJson(doc) == [kind |-> "json", json |-> doc]

\* json.loads(response.text), after the call itself
JsonLoads(response) ==
    IF response.kind = "json" THEN Ok(response.json) ELSE Raised


(***************************************************************************)
(* MetadataClassifier: app.extract_names_from_text.                        *)
(***************************************************************************)
NamesDefault == [news_type |-> StrV(S_Unknown), date |-> Today]

\* the body of the try block; `response` is the LLM's answer to the call
extract_names_from_text_try(text, response) ==
    IF text = <<>> THEN Ok(NamesDefault)
    ELSE IF response.kind = "error" THEN Raised
    ELSE LET result == JsonLoads(response) IN
         IF result.exc THEN Raised
         ELSE IF result.val.t # "dict" THEN Raised    \* no .get on a non-dict
         ELSE Ok([news_type |-> Get(result.val, "news_type", StrV(S_Unknown)),
                  date |-> Today])

\* the function with its except clause left out
extract_names_from_text_NoExcept(text, response) ==
    extract_names_from_text_try(text, response)

\* try: ... except Exception: return the default
extract_names_from_text(text, response) ==
    LET Except(r) == IF r.exc THEN Ok(NamesDefault) ELSE r
    IN Apply(Except, extract_names_from_text_try(text, response))

(***************************************************************************)
(* LocationExtractor: app.get_city.                                        *)
(***************************************************************************)
UnknownList == ListV(<<StrE(S_unknown)>>)

CityDefault == [city |-> UnknownList, locality |-> UnknownList]

\* the rule collapsing only a list made of "unknown" entries alone
SentinelCollapse_OnlyUnknown(v) ==
    IF ~Truthy(v) THEN Ok(UnknownList)
    ELSE IF IterRaises(v) THEN Raised
    ELSE LET Rule(xs) ==
               IF \E i \in 1..Len(xs) : xs[i].t # "str" THEN Raised
               ELSE IF \A i \in 1..Len(xs) : Lower(xs[i].s) = S_unknown
                    THEN Ok(UnknownList)
                    ELSE Ok(v)
         IN Apply(Rule, IterItems(v))

\* v if v and "unknown" not in [x.lower() for x in v] else ["unknown"]
SentinelCollapse(v) ==
    IF ~Truthy(v) THEN Ok(UnknownList)
    ELSE IF IterRaises(v) THEN Raised                 \* TypeError
    ELSE LET Rule(xs) ==
               IF \E i \in 1..Len(xs) : xs[i].t # "str" THEN Raised  \* no .lower()
               ELSE IF \E i \in 1..Len(xs) : Lower(xs[i].s) = S_unknown
                    THEN Ok(UnknownList)
                    ELSE Ok(v)
         IN Apply(Rule, IterItems(v))

\* the body of the try block
get_city_try(text, response) ==
    IF text = <<>> THEN Ok(CityDefault)
    ELSE IF response.kind = "error" THEN Raised
    ELSE LET result == JsonLoads(response) IN
         IF result.exc THEN Raised
         ELSE IF result.val.t # "dict" THEN Raised
         ELSE LET Both(city, locality) ==
                      IF city.exc \/ locality.exc THEN Raised
                      ELSE Ok([city |-> city.val, locality |-> locality.val])
              IN Apply2(Both,
                        SentinelCollapse(Get(result.val, "city", UnknownList)),
                        SentinelCollapse(Get(result.val, "locality", UnknownList)))

\* try: ... except Exception: return the default
get_city(text, response) ==
    LET Except(r) == IF r.exc THEN Ok(CityDefault) ELSE r
    IN Apply(Except, get_city_try(text, response))


(***************************************************************************)
(* Summarizer and record assembly: app.generate_summary.                   *)
(***************************************************************************)
\* the grave accent of a markdown code fence (written ^ here: a string of
\* this notation cannot hold the grave accent itself)
Tick == "^"

S_fence_html == <<Tick, Tick, Tick, "h", "t", "m", "l">>
S_fence == <<Tick, Tick, Tick>>

\* "Unable to generate summary due to missing content"
S_Unable == <<"U", "n", "a", "b", "l", "e">>

\* f"Error generating summary: {str(e)}"
S_ErrorSummary == <<"E", "r", "r", "o", "r">>

\* summary.replace("```html", "").replace("```", "")
Unfenced(summary) ==
    LET DropHtmlFence(s) == RemoveAll(s, S_fence_html)
        DropFence(s) == RemoveAll(s, S_fence)
    IN Apply(DropFence, Apply(DropHtmlFence, summary))

\* an answer of generate_content to the summary prompt
SumError == [kind |-> "error", text |-> <<>>]
SumNoText == [kind |-> "no_text", text |-> <<>>]
SumText(text) == [kind |-> "text", text |-> text]

SummaryDefault(summary) ==
    [summary |-> summary, city |-> UnknownList, locality |-> UnknownList,
     news_type |-> StrV(S_Unknown), date |-> Today]

\* the body of the try block
generate_summary_try(text, r_cls, r_loc, r_sum) ==
    IF text = <<>> THEN Ok(SummaryDefault(S_Unable))
    ELSE LET Rest(extracted_data, city_locality) ==
               IF extracted_data.exc \/ city_locality.exc THEN Raised
               ELSE IF r_sum.kind = "error" THEN Raised
               ELSE IF r_sum.kind = "no_text" THEN Raised   \* None.replace
               ELSE Ok([summary |-> Unfenced(r_sum.text),
                        city |-> city_locality.val.city,
                        locality |-> city_locality.val.locality,
                        news_type |-> extracted_data.val.news_type,
                        date |-> extracted_data.val.date])
         IN Apply2(Rest, extract_names_from_text(text, r_cls),
                   get_city(text, r_loc))

\* the function with its except clause left out
generate_summary_NoExcept(text, r_cls, r_loc, r_sum) ==
    generate_summary_try(text, r_cls, r_loc, r_sum)

\* try: ... except Exception: return the error record
generate_summary(text, r_cls, r_loc, r_sum) ==
    LET Except(r) == IF r.exc THEN Ok(SummaryDefault(S_ErrorSummary)) ELSE r
    IN Apply(Except, generate_summary_try(text, r_cls, r_loc, r_sum))

(***************************************************************************)
(* main.py: the placeholder classifier, get_city returning the raw answer, *)
(* and generate_summary.                                                   *)
(***************************************************************************)
\* the text of a JSON list holding the one string unknown
UnknownText == LLMJson(Other(UnknownList))

main_get_city(text, response) ==
    IF response.kind = "error" THEN UnknownText ELSE response

main_generate_summary_try(text, r_loc, r_sum) ==
    IF text = <<>>
    THEN Ok([summary |-> S_Unable, city_locality |-> UnknownText, date |-> Today])
    ELSE IF r_sum.kind \in {"error", "no_text"} THEN Raised
    ELSE Ok([summary |-> Unfenced(r_sum.text),
             city_locality |-> main_get_city(text, r_loc),
             date |-> Today])

main_generate_summary(text, r_loc, r_sum) ==
    LET Except(r) ==
          IF r.exc
          THEN Ok([summary |-> S_ErrorSummary, city_locality |-> UnknownText,
                   date |-> Today])
          ELSE r
    IN Apply(Except, main_generate_summary_try(text, r_loc, r_sum))


(***************************************************************************)
(* The sources, their caps, listing pages and article pages.               *)
(***************************************************************************)
Sources == 1..3    \* constructionworld.in, the economictimes feed, rprealtyplus.com

Programs == {"app", "main"}

\* `if valid_urls >= N: break` of each source's loop
Cap(p, s) == IF p = "app" THEN <<20, 10, 6>>[s] ELSE <<5, 5, 5>>[s]

\* the break test with > written for >=
CapReached_OffByOne(n, cap) == n > cap

\* the break test met one record early
CapReached_OneEarly(n, cap) == n + 1 >= cap

\* valid_urls >= cap
CapReached(n, cap) == n >= cap

\* an article URL: the source it belongs to and the article's number
Url(s, id) == <<s, id>>

\* the articles whose page may be a bad one, or for which an answer of the
\* LLM may deviate from the nominal one: a source's first article, the one
\* at its cap and the one right after it
BadUrls(p) ==
    UNION {{Url(s, id) : id \in {1, Cap(p, s), Cap(p, s) + 1}} : s \in Sources}

\* an href of a listing page (a guid text of the feed).  kind: "path" a
\* relative path, "nv" a relative path starting with news-views, "http" an
\* absolute URL, "frag" a #fragment, "js" a javascript: link.  id: the
\* article the link leads to.
Href(kind, id) == [kind |-> kind, id |-> id]

NominalKind(s) == <<"path", "http", "nv">>[s]

NominalPage(s, n) == [i \in 1..n |-> Href(NominalKind(s), i)]

InsertAt(seq, k, x) == SubSeq(seq, 1, k - 1) \o <<x>> \o SubSeq(seq, k, Len(seq))

\* one link more on a page: a repeated link, a fragment, a script link, the
\* first article spelled as another kind of link
Anomalies(s) ==
    IF s = 2 THEN {Href("http", 1)}
    ELSE {Href(NominalKind(s), 1), Href("frag", 0), Href("js", 0),
          Href(IF s = 1 THEN "http" ELSE "path", 1)}

\* what fetching a listing page gives: an exception, a status other than
\* 200, or a page of links
ListingError == [status |-> "error", page |-> <<>>, faulty |-> 1]
ListingNon200 == [status |-> "http_500", page |-> <<>>, faulty |-> 1]
ListingOk(page, faulty) == [status |-> "ok", page |-> page, faulty |-> faulty]

ListingOutcomes(p, s) ==
    {ListingError, ListingNon200}
    \cup {ListingOk(NominalPage(s, n), 0) : n \in {ShortLen, Cap(p, s) + Extra}}
    \cup {ListingOk(InsertAt(NominalPage(s, n), 2, h), 1) :
            n \in {ShortLen, Cap(p, s) + Extra}, h \in Anomalies(s)}

RECURSIVE Dedupe(_)
Dedupe(seq) ==
    IF seq = <<>> THEN <<>>
    ELSE LET front == Dedupe(SubSeq(seq, 1, Len(seq) - 1))
             x == seq[Len(seq)]
         IN IF \E i \in 1..Len(front) : front[i] = x THEN front
            ELSE Append(front, x)

\* the first source keeps every href but fragments and script links
Kept1(h) == h.kind \notin {"frag", "js"}

\* the third source keeps the hrefs starting with news-views
Kept3(h) == h.kind = "nv"

\* all_urls as each source builds it from its listing page
Discover(s, page) ==
    LET kept == CASE s = 1 -> SelectSeq(page, Kept1)
                  [] s = 2 -> page
                  [] s = 3 -> SelectSeq(page, Kept3)
        urls == [i \in 1..Len(kept) |-> Url(s, kept[i].id)]
    IN IF s = 3 THEN Dedupe(urls) ELSE urls

\* an article page: the request fails, the selector matches nothing, or the
\* selected element has the text raw
PageError == [kind |-> "error", raw |-> <<>>]
PageNoElement == [kind |-> "no_element", raw |-> <<>>]
PageText(raw) == [kind |-> "text", raw |-> raw]

GoodPage == PageText(<<"(", "a", ")", "\n">>)

BadPages(s) ==
    {PageError, PageText(<<" ", "\n">>)}
    \cup (IF s = 2 THEN {} ELSE {PageNoElement})

\* an extracted text or None
None == [some |-> FALSE, s |-> <<>>]
Some(text) == [some |-> TRUE, s |-> text]

\* fetch_and_extract_text_constructionworld / _realtyplus
fetch_and_extract_text(page) ==
    IF page.kind = "error" THEN None                \* except: return None
    ELSE IF page.kind = "no_element" THEN None
    ELSE LET result_text == NormalizeText(page.raw) IN
         IF result_text # <<>> THEN Some(result_text) ELSE None

\* the feed's loop body up to `if text:`; a failed request is caught by
\* the loop's own except and the loop continues
feed_extract_text(page) ==
    IF page.kind = "error" THEN None
    ELSE LET text == NormalizeText(page.raw) IN
         IF text # <<>> THEN Some(text) ELSE None

ExtractText(s, page) ==
    IF s = 2 THEN feed_extract_text(page) ELSE fetch_and_extract_text(page)


(***************************************************************************)
(* The answers of the LLM the aggregator's runs draw from: the nominal     *)
(* answer of each prompt and a few deviations.                             *)
(***************************************************************************)
NominalCls == LLMJson(Dict({"news_type"}, NullV, NullV, StrV(S_civic)))

NominalLoc ==
    LLMJson(Dict({"city", "locality"}, ListV(<<StrE(S_Delhi)>>),
                 ListV(<<StrE(S_Sector)>>), NullV))

\* a summary inside a markdown code fence
NominalSum == SumText(S_fence_html \o <<"S">> \o S_fence)

\* a JSON answer whose city is a string and no list
StringCityLoc ==
    LLMJson(Dict({"city", "locality"}, StrV(S_Delhi),
                 ListV(<<StrE(S_Sector)>>), NullV))

ClsResponses(p) ==
    IF p = "main" THEN {NominalCls}       \* main.py's classifier calls no LLM
    ELSE {NominalCls, LLMNotJson}

LocResponses == {NominalLoc, StringCityLoc}

SumResponses == {NominalSum, SumError}

Deviations(r_cls, r_loc, r_sum) ==
    (IF r_cls = NominalCls THEN 0 ELSE 1) + (IF r_loc = NominalLoc THEN 0 ELSE 1)
    + (IF r_sum = NominalSum THEN 0 ELSE 1)

\* the webs with at most k pages that are not GoodPage
RECURSIVE Webs(_, _)
Webs(p, k) ==
    IF k = 0 THEN {<<>>}
    ELSE LET smaller == Webs(p, k - 1) IN
         smaller \cup
         {w @@ (u :> page) :
            w \in smaller, u \in BadUrls(p), page \in BadPages(1) \cup BadPages(2)}

PageAt(u) == IF u \in DOMAIN web THEN web[u] ELSE GoodPage

(***************************************************************************)
(* fetch_news / get_news.                                                  *)
(***************************************************************************)
\* a Python dict with string keys: a function on the keys it holds
EmptyDict == [k \in {} |-> <<>>]

\* an assignment that keeps the value a key already has
SetKey_KeepFirst(d, k, v) ==
    [x \in DOMAIN d \cup {k} |-> IF x \in DOMAIN d THEN d[x] ELSE v]

\* d[k] = v
SetKey(d, k, v) == [x \in DOMAIN d \cup {k} |-> IF x = k THEN v ELSE d[x]]

NoReturn == [keys |-> {}, news |-> <<>>, error |-> <<>>]

\* no response sent yet
NotSent == [status |-> 0, keys |-> {}, news |-> <<>>, error |-> <<>>]

\* get_city_news at rest while another operation is modelled
ParseIdle ==
    /\ p_pc = "idle"
    /\ p_city = <<>>
    /\ p_result_text = <<>>
    /\ lines = <<>>
    /\ li = 1
    /\ current = EmptyDict
    /\ current_at = {}
    /\ parsed_news = <<>>
    /\ returned = NoReturn
    /\ sent = NotSent

Pending == [status |-> "pending", urls |-> <<>>]

AggInit ==
    /\ prog \in Programs
    /\ web \in {w \in Webs(prog, MaxFaults) :
                  \A u \in DOMAIN w : w[u] \in BadPages(u[1])}
    /\ faults = Cardinality(DOMAIN web)
    /\ pc = "listing"
    /\ src = 1
    /\ all_urls = <<>>
    /\ idx = 1
    /\ valid_urls = 0
    /\ news_items = <<>>
    /\ requests = <<>>
    /\ listing = [s \in Sources |-> Pending]
    /\ last_responses = [cls |-> NominalCls, loc |-> NominalLoc, sum |-> NominalSum]

FnIdle ==
    /\ fn = "none"
    /\ arg_text = <<>>
    /\ arg_response = LLMError
    /\ ret = Raised

Init == AggInit /\ FnIdle /\ ParseIdle

\* where control goes when a source is finished with, by the end of its
\* loop, by break or by its except clause
SourceDone ==
    /\ pc' = IF src < 3 THEN "listing" ELSE "done"
    /\ src' = IF src < 3 THEN src + 1 ELSE src

\* the exception leaves the function: no except clause around the source
SourceDone_NoExcept ==
    /\ pc' = "raised"
    /\ src' = src

\* the listing request of a source failed: `except Exception` (for the
\* first source also `if response.status_code == 200` being false)
ListingFailed == SourceDone

\* a counter that is never advanced
NextValid_Stuck(n) == n

\* valid_urls += 1
NextValid(n) == n + 1

\* the record appended for an article
NewsItem(p, news_url, result) ==
    IF p = "app"
    THEN [news_url |-> news_url, summary |-> result.summary,
          city |-> result.city, locality |-> result.locality,
          news_type |-> result.news_type, date |-> result.date]
    ELSE [news_url |-> news_url, summary |-> result.summary,
          city_locality |-> result.city_locality, date |-> result.date]

\* the request of a source's listing page and the discovery of all_urls
FetchListing ==
    /\ pc = "listing"
    /\ \E out \in ListingOutcomes(prog, src) :
         /\ faults + out.faulty <= MaxFaults
         /\ faults' = faults + out.faulty
         /\ IF out.status = "ok"
            THEN /\ all_urls' = Discover(src, out.page)
                 /\ valid_urls' = 0
                 /\ idx' = 1
                 /\ pc' = "loop"
                 /\ src' = src
                 /\ listing' = [listing EXCEPT ![src] =
                                  [status |-> "ok", urls |-> Discover(src, out.page)]]
            ELSE /\ ListingFailed
                 /\ listing' = [listing EXCEPT ![src] =
                                  [status |-> "failed", urls |-> <<>>]]
                 /\ UNCHANGED <<all_urls, valid_urls, idx>>
    /\ UNCHANGED <<prog, web, news_items, requests, last_responses, fnVars, parseVars>>

\* the for loop has no candidate left
LoopExhausted ==
    /\ pc = "loop"
    /\ idx > Len(all_urls)
    /\ SourceDone
    /\ UNCHANGED <<prog, web, faults, all_urls, idx, valid_urls, news_items,
                   requests, listing, last_responses, fnVars, parseVars>>

\* if valid_urls >= cap: break
LoopBreak ==
    /\ pc = "loop"
    /\ idx <= Len(all_urls)
    /\ CapReached(valid_urls, Cap(prog, src))
    /\ SourceDone
    /\ UNCHANGED <<prog, web, faults, all_urls, idx, valid_urls, news_items,
                   requests, listing, last_responses, fnVars, parseVars>>

\* one iteration of a source's loop: the article is requested and its text
\* extracted; with a text, generate_summary runs and the record is appended
ProcessCandidate ==
    /\ pc = "loop"
    /\ idx <= Len(all_urls)
    /\ ~CapReached(valid_urls, Cap(prog, src))
    /\ requests' = Append(requests, all_urls[idx])
    /\ \E text \in {ExtractText(src, PageAt(all_urls[idx]))} :
         IF ~text.some
         THEN /\ idx' = idx + 1
              /\ UNCHANGED <<faults, pc, src, valid_urls, news_items,
                             last_responses>>
         ELSE \E r_cls \in ClsResponses(prog), r_loc \in LocResponses,
                 r_sum \in SumResponses :
                /\ Deviations(r_cls, r_loc, r_sum) > 0
                     => all_urls[idx] \in BadUrls(prog)
                /\ faults + Deviations(r_cls, r_loc, r_sum) <= MaxFaults
                /\ faults' = faults + Deviations(r_cls, r_loc, r_sum)
                /\ last_responses' = [cls |-> r_cls, loc |-> r_loc, sum |-> r_sum]
                /\ \E result \in
                        {IF prog = "app"
                         THEN generate_summary(text.s, r_cls, r_loc, r_sum)
                         ELSE main_generate_summary(text.s, r_loc, r_sum)} :
                     IF result.exc
                     THEN \* an exception of the loop body: the feed's loop
                          \* catches it and continues, the other sources'
                          \* except clause ends the source
                          IF src = 2
                          THEN /\ idx' = idx + 1
                               /\ UNCHANGED <<pc, src, valid_urls, news_items>>
                          ELSE /\ SourceDone
                               /\ UNCHANGED <<idx, valid_urls, news_items>>
                     ELSE /\ news_items' =
                               Append(news_items,
                                      NewsItem(prog, all_urls[idx], result.val))
                          /\ valid_urls' = NextValid(valid_urls)
                          /\ idx' = idx + 1
                          /\ UNCHANGED <<pc, src>>
    /\ UNCHANGED <<prog, web, all_urls, listing, fnVars, parseVars>>

Next == FetchListing \/ LoopExhausted \/ LoopBreak \/ ProcessCandidate

Spec == Init /\ [][Next]_vars

\* the run is one sequential flow of control: a step that can be taken is
\* taken
FairSpec == Spec /\ WF_vars(Next)


(***************************************************************************)
(* Single calls of the pure functions, on answers of the LLM drawn from    *)
(* wider sets than the aggregator's runs use.                              *)
(***************************************************************************)
SeqsUpTo(S, n) == UNION {[1..k -> S] : k \in 0..n}

Elems == {StrE(S_unknown), StrE(S_Unknown), StrE(S_Delhi), StrE(S_Sector), NullE}

Lists == {ListV(items) : items \in SeqsUpTo(Elems, MaxItems)}

Scalars ==
    {StrV(S_Delhi), StrV(S_unknown), StrV(<<>>), NumV(<<"5">>), NumV(<<"0">>),
     NullV}

\* the JSON objects with a city key, a locality key, both or neither
LocDocs ==
    {Dict({"city", "locality"}, c, l, NullV) : c \in Lists \cup Scalars,
                                               l \in Lists \cup Scalars}
    \cup {Dict({"city"}, c, NullV, NullV) : c \in Lists \cup Scalars}
    \cup {Dict({"locality"}, NullV, l, NullV) : l \in Lists \cup Scalars}
    \cup {Dict({}, NullV, NullV, NullV)}

FailedAnswers ==
    {LLMError, LLMNoText, LLMNotJson, LLMJson(NotADict),
     LLMJson(Other(ListV(<<StrE(S_Delhi)>>)))}

LocAnswers == FailedAnswers \cup {LLMJson(doc) : doc \in LocDocs}

ClsAnswers ==
    FailedAnswers
    \cup {LLMJson(Dict({"news_type"}, NullV, NullV, v)) :
            v \in {StrV(S_civic), StrV(S_Unknown), StrV(<<>>), NullV,
                   NumV(<<"5">>), ListV(<<StrE(S_civic)>>)}}
    \cup {LLMJson(Dict({}, NullV, NullV, NullV)),
          LLMJson(Dict({"city"}, ListV(<<StrE(S_Delhi)>>), NullV, NullV))}

SumAnswers ==
    {SumError, SumNoText, SumText(<<>>), SumText(<<"S">>), NominalSum,
     SumText(S_fence \o <<"S">>)}

ArticleTexts == {<<>>, <<"a">>}

\* raw texts of an article element
RawChars == {"a", " ", "\n", "\t", "(", "]"}

RawTexts == SeqsUpTo(RawChars, MaxTextLen)

\* the aggregator at rest while single functions are called
AggIdle ==
    /\ prog = "app"
    /\ web = <<>>
    /\ faults = 0
    /\ pc = "done"
    /\ src = 3
    /\ all_urls = <<>>
    /\ idx = 1
    /\ valid_urls = 0
    /\ news_items = <<>>
    /\ requests = <<>>
    /\ listing = [s \in Sources |-> Pending]
    /\ last_responses = [cls |-> NominalCls, loc |-> NominalLoc, sum |-> NominalSum]

FnInit == AggIdle /\ FnIdle /\ ParseIdle

Call_get_city ==
    /\ fn = "none"
    /\ \E text \in ArticleTexts, response \in LocAnswers :
         /\ fn' = "get_city"
         /\ arg_text' = text
         /\ arg_response' = response
         /\ ret' = get_city(text, response)
    /\ UNCHANGED <<aggVars, parseVars>>

Call_extract_names_from_text ==
    /\ fn = "none"
    /\ \E text \in ArticleTexts, response \in ClsAnswers :
         /\ fn' = "extract_names_from_text"
         /\ arg_text' = text
         /\ arg_response' = response
         /\ ret' = extract_names_from_text(text, response)
    /\ UNCHANGED <<aggVars, parseVars>>

Call_generate_summary ==
    /\ fn = "none"
    /\ \E text \in ArticleTexts,
          r_cls \in {NominalCls, LLMError, LLMNotJson},
          r_loc \in {NominalLoc, LLMError, StringCityLoc},
          r_sum \in SumAnswers :
         /\ fn' = "generate_summary"
         /\ arg_text' = text
         /\ arg_response' = [cls |-> r_cls, loc |-> r_loc, sum |-> r_sum]
         /\ ret' = generate_summary(text, r_cls, r_loc, r_sum)
    /\ UNCHANGED <<aggVars, parseVars>>

\* the normalisation of an element's text
Call_NormalizeText ==
    /\ fn = "none"
    /\ \E text \in RawTexts :
         /\ fn' = "NormalizeText"
         /\ arg_text' = text
         /\ arg_response' = LLMError
         /\ ret' = NormalizeText(text)
    /\ UNCHANGED <<aggVars, parseVars>>

FnNext ==
    \/ Call_get_city
    \/ Call_extract_names_from_text
    \/ Call_generate_summary
    \/ Call_NormalizeText

FnSpec == FnInit /\ [][FnNext]_vars


(***************************************************************************)
(* FreeformResponseParser: main2.get_city_news.                            *)
(***************************************************************************)
S_summary == <<"s", "u", "m", "m", "a", "r", "y">>
S_locality == <<"l", "o", "c", "a", "l", "i", "t", "y">>
S_source == <<"s", "o", "u", "r", "c", "e">>
S_news_type == <<"n", "e", "w", "s", "_", "t", "y", "p", "e">>
S_date == <<"d", "a", "t", "e">>

\* the answers taken for "no news"
NoNewsTexts ==
    {<<"n", "u", "l", "l">>, <<"n", "o", "n", "e">>,
     <<"n", "o", " ", "n", "e", "w", "s">>,
     <<"n", "o", " ", "f", "r", "e", "s", "h", " ", "n", "e", "w", "s">>}

\* str.splitlines() of a text whose only line boundary is "\n"
RECURSIVE SplitLines(_)
SplitLines(s) ==
    IF s = <<>> THEN <<>>
    ELSE IF \E i \in 1..Len(s) : s[i] = "\n"
         THEN LET i == CHOOSE i \in 1..Len(s) :
                         s[i] = "\n" /\ \A j \in 1..(i - 1) : s[j] # "\n"
              IN <<SubSeq(s, 1, i - 1)>> \o SplitLines(SubSeq(s, i + 1, Len(s)))
         ELSE <<s>>

\* a line that is not blank
NonBlank(line) == Strip(line) # <<>>

\* line.split(":", 1)[-1]
AfterFirstColon(line) ==
    IF \E i \in 1..Len(line) : line[i] = ":"
    THEN LET i == CHOOSE i \in 1..Len(line) :
                    line[i] = ":" /\ \A j \in 1..(i - 1) : line[j] # ":"
         IN SubSeq(line, i + 1, Len(line))
    ELSE line

\* the value with the quote and comma characters trimmed at its end only
LineValue_TrailingOnly(line) ==
    RStripChars(Strip(AfterFirstColon(line)), {"\"", ","})

\* line.split(":", 1)[-1].strip().strip('",')
LineValue(line) ==
    LET Trim(s) == StripChars(s, {"\"", ","})
    IN Apply(Trim, Apply(Strip, Apply(AfterFirstColon, line)))

\* the chain with the key of the line, the text before its first colon,
\* deciding the field
LineClass_ByKey(line) ==
    LET key == IF \E i \in 1..Len(line) : line[i] = ":"
               THEN SubSeq(line, 1,
                           (CHOOSE i \in 1..Len(line) :
                              line[i] = ":" /\ \A j \in 1..(i - 1) : line[j] # ":") - 1)
               ELSE line
        lower == Lower(key)
    IN IF Contains(lower, S_summary) THEN "summary"
       ELSE IF Contains(lower, S_locality) THEN "locality"
       ELSE IF Contains(lower, S_source) THEN "source"
       ELSE IF Contains(lower, S_news_type) THEN "news_type"
       ELSE IF Contains(lower, S_date) THEN "date"
       ELSE "none"

\* the if / elif chain on the lower-cased line
LineClass(line) ==
    LET lower == Lower(line) IN
    IF Contains(lower, S_summary) THEN "summary"
    ELSE IF Contains(lower, S_locality) THEN "locality"
    ELSE IF Contains(lower, S_source) THEN "source"
    ELSE IF Contains(lower, S_news_type) THEN "news_type"
    ELSE IF Contains(lower, S_date) THEN "date"
    ELSE "none"

\* a summary line that emits nothing
EmitCurrent_Never(parsed, cur) == parsed

\* the append without the test of current
EmitCurrent_Always(parsed, cur) == Append(parsed, cur)

\* if current: parsed_news.append(current)
EmitCurrent(parsed, cur) ==
    IF DOMAIN cur # {} THEN Append(parsed, cur) ELSE parsed

\* the positions of the list that hold the dict current is bound to, after
\* `if current: parsed_news.append(current)`: append stores the dict itself,
\* not a copy
EmitAt(parsed, cur, at) ==
    IF DOMAIN cur # {} THEN at \cup {Len(parsed) + 1} ELSE at

\* the record started by clearing and refilling the dict current is bound to
Rebound_InPlace(at) == at

\* current = {"summary": value, "city": city}: the name is bound to a new
\* dict, which no position of the list holds
Rebound(at) == {}

\* the list as read after a write to the dict current is bound to: the
\* positions holding that dict show the write
Shared(parsed, at, cur) ==
    [i \in 1..Len(parsed) |-> IF i \in at THEN cur ELSE parsed[i]]

\* the lines an answer is built from
L_SummaryFlood ==
    <<"S", "u", "m", "m", "a", "r", "y", ":", " ", "F", "l", "o", "o", "d", " ",
      "i", "n", " ", "S", "e", "c", "t", "o", "r", " ", "1", "2">>
L_LocalitySector ==
    <<"L", "o", "c", "a", "l", "i", "t", "y", ":", " ", "S", "e", "c", "t", "o",
      "r", " ", "1", "2">>
L_Date03 ==
    <<"D", "a", "t", "e", ":", " ", "2", "0", "2", "5", "-", "0", "8", "-", "0",
      "3">>
L_SummaryMetro ==
    <<"S", "u", "m", "m", "a", "r", "y", ":", " ", "M", "e", "t", "r", "o", " ",
      "d", "e", "l", "a", "y">>
L_Date04 ==
    <<"D", "a", "t", "e", ":", " ", "2", "0", "2", "5", "-", "0", "8", "-", "0",
      "4">>
L_SourceSummary ==
    <<"S", "o", "u", "r", "c", "e", ":", " ", "s", "u", "m", "m", "a", "r", "y",
      " ", "o", "f", " ", "e", "v", "e", "n", "t", "s">>
L_Prose == <<"j", "u", "s", "t", " ", "s", "o", "m", "e", " ", "t", "e", "x", "t">>
L_NewsType ==
    <<"n", "e", "w", "s", "_", "t", "y", "p", "e", ":", " ", "M", "e", "t", "r",
      "o">>
L_QuotedDate ==
    <<"\"", "d", "a", "t", "e", "\"", ":", " ", "\"", ",", "2", "0", "2", "5",
      "\"", ",">>
L_NoColonDate ==
    <<"n", "o", " ", "c", "o", "l", "o", "n", " ", "d", "a", "t", "e">>
L_LocalityNoida ==
    <<"L", "o", "c", "a", "l", "i", "t", "y", ":", " ", "N", "o", "i", "d", "a">>
L_DateOfSource ==
    <<"D", "a", "t", "e", ":", " ", "p", "e", "r", " ", "s", "o", "u", "r", "c",
      "e">>
L_Blank == <<" ">>

LinePool ==
    {L_SummaryFlood, L_LocalitySector, L_Date03, L_SummaryMetro,
     L_SourceSummary, L_Prose, L_NewsType, L_QuotedDate, L_NoColonDate,
     L_LocalityNoida, L_DateOfSource, L_Blank}

\* "\n".join(ls)
RECURSIVE JoinLines(_)
JoinLines(ls) ==
    IF ls = <<>> THEN <<>>
    ELSE IF Len(ls) = 1 THEN ls[1]
    ELSE ls[1] \o <<"\n">> \o JoinLines(Tail(ls))

\* the five-line answer of the specification's parsing example
ExampleText ==
    JoinLines(<<L_SummaryFlood, L_LocalitySector, L_Date03, L_SummaryMetro,
                L_Date04>>)

\* the lines the answers are made of
AnswerLines == LinePool \cup {L_Date04}

\* the texts the LLM answers the city prompt with
FreeformTexts ==
    {JoinLines(ls) : ls \in SeqsUpTo(LinePool, MaxLines)}
    \cup {ExampleText, <<"n", "u", "l", "l">>,
          <<"N", "o", " ", "N", "e", "w", "s">>, <<" ", "\n">>}

Cities == {S_Delhi}

ParseInit ==
    /\ p_pc = "start"
    /\ p_city \in Cities
    /\ p_result_text = <<>>
    /\ lines = <<>>
    /\ li = 1
    /\ current = EmptyDict
    /\ current_at = {}
    /\ parsed_news = <<>>
    /\ returned = NoReturn
    /\ sent = NotSent
    /\ AggIdle
    /\ FnIdle

\* the handler up to the for loop: the LLM is asked, and the answer is
\* stripped, tested for "no news" and split into its non-blank lines
GetCityNews_Ask ==
    /\ p_pc = "start"
    /\ \E answer \in {SumError, SumNoText} \cup {SumText(t) : t \in FreeformTexts} :
         IF answer.kind \in {"error", "no_text"}
         THEN \* except Exception as e: return {"news": [], "error": str(e)}
              /\ returned' = [keys |-> {"news", "error"}, news |-> <<>>,
                              error |-> S_ErrorSummary]
              /\ p_pc' = "returned"
              /\ UNCHANGED <<p_result_text, lines, li, current, current_at,
                             parsed_news>>
         ELSE LET text == Strip(answer.text) IN
              /\ p_result_text' = text
              /\ IF text = <<>> \/ Lower(text) \in NoNewsTexts
                 THEN /\ returned' = [keys |-> {"news"}, news |-> <<>>,
                                      error |-> <<>>]
                      /\ p_pc' = "returned"
                      /\ UNCHANGED <<lines, li, current, current_at,
                                     parsed_news>>
                 ELSE /\ lines' = SelectSeq(SplitLines(text), NonBlank)
                      /\ parsed_news' = <<>>
                      /\ current' = EmptyDict
                      /\ current_at' = {}
                      /\ li' = 1
                      /\ p_pc' = "parse"
                      /\ UNCHANGED returned
    /\ UNCHANGED <<p_city, sent, aggVars, fnVars>>

\* one iteration of `for line in lines`
ParseLine ==
    /\ p_pc = "parse"
    /\ li <= Len(lines)
    /\ LET line == lines[li]
           value == LineValue(line)
           class == LineClass(line)
       IN IF class = "summary"
          THEN /\ current' = SetKey(SetKey(EmptyDict, "summary", value),
                                    "city", p_city)
               /\ current_at' = Rebound(EmitAt(parsed_news, current, current_at))
               /\ parsed_news' = Shared(EmitCurrent(parsed_news, current),
                                        current_at', current')
          ELSE IF class = "none"
          THEN UNCHANGED <<parsed_news, current, current_at>>
          ELSE /\ current' = SetKey(current, class, value)
               /\ parsed_news' = Shared(parsed_news, current_at, current')
               /\ UNCHANGED current_at
    /\ li' = li + 1
    /\ UNCHANGED <<p_pc, p_city, p_result_text, lines, returned, sent, aggVars,
                   fnVars>>

\* after the loop: the record in progress is emitted and the list returned
ParseReturn ==
    /\ p_pc = "parse"
    /\ li > Len(lines)
    /\ parsed_news' = EmitCurrent(parsed_news, current)
    /\ current_at' = EmitAt(parsed_news, current, current_at)
    /\ returned' = [keys |-> {"news"},
                    news |-> EmitCurrent(parsed_news, current), error |-> <<>>]
    /\ p_pc' = "returned"
    /\ UNCHANGED <<p_city, p_result_text, lines, li, current, sent, aggVars,
                   fnVars>>

\* the fields NewsItem declares, and those of them it requires
NewsItemFields == {"city", "summary", "locality", "source", "news_type", "date"}

NewsItemRequired == {"summary", "date"}

\* whether a returned record validates as a NewsItem; every value the
\* parser stores is a str
ValidNewsItem(item) == NewsItemRequired \subseteq DOMAIN item

\* the keys of the returned dict that NewsResponse declares; the response
\* is serialised from the model, and any other key is dropped
SentKeys(result) == result.keys \cap {"news"}

\* response_model=NewsResponse: the returned dict is validated against the
\* model and serialised from it.  A record that does not validate is a
\* server error (status 500) in place of the response.  A field the parser
\* has not set, null in the JSON sent, is absent from the item here.
Respond ==
    /\ p_pc = "returned"
    /\ p_pc' = "responded"
    /\ sent' =
         IF \A i \in 1..Len(returned.news) : ValidNewsItem(returned.news[i])
         THEN [status |-> 200,
               keys |-> SentKeys(returned),
               news |-> [i \in 1..Len(returned.news) |->
                           [f \in DOMAIN returned.news[i] \cap NewsItemFields |->
                              returned.news[i][f]]],
               error |-> IF "error" \in SentKeys(returned)
                         THEN returned.error ELSE <<>>]
         ELSE [status |-> 500, keys |-> {}, news |-> <<>>, error |-> <<>>]
    /\ UNCHANGED <<p_city, p_result_text, lines, li, current, current_at,
                   parsed_news, returned, aggVars, fnVars>>

ParseNext == GetCityNews_Ask \/ ParseLine \/ ParseReturn \/ Respond

ParseSpec == ParseInit /\ [][ParseNext]_vars

\* a run of either program: the aggregator or the city endpoint
RunInit == Init \/ ParseInit

RunNext == Next \/ ParseNext

RunSpec == RunInit /\ [][RunNext]_vars


(***************************************************************************)
(* What the claims speak of.                                               *)
(***************************************************************************)
\* how many entries of a sequence of URLs, or of records, are of source s
CountUrls(seq, s) == Cardinality({i \in 1..Len(seq) : seq[i][1] = s})

RecordsOf(s) ==
    Cardinality({i \in 1..Len(news_items) : news_items[i].news_url[1] = s})

IsOfSource1(u) == u[1] = 1
IsOfSource2(u) == u[1] = 2
IsOfSource3(u) == u[1] = 3

UrlsOfSource(seq, s) ==
    CASE s = 1 -> SelectSeq(seq, IsOfSource1)
      [] s = 2 -> SelectSeq(seq, IsOfSource2)
      [] s = 3 -> SelectSeq(seq, IsOfSource3)

\* the URLs of a source's records, in the order of the result
RecordUrls(s) ==
    UrlsOfSource([i \in 1..Len(news_items) |-> news_items[i].news_url], s)

\* whether the article at u has a text to extract
Extractable(u) == ExtractText(u[1], PageAt(u)).some

FirstN(seq, n) == SubSeq(seq, 1, IF Len(seq) < n THEN Len(seq) ELSE n)

\* C1: whatever the listing fetches, extractions and LLM calls give, a
\* source never contributes more records than its cap (20, 10, 6 in app.py,
\* 5 each in main.py).
C1_CapNeverExceeded == \A s \in Sources : RecordsOf(s) <= Cap(prog, s)

\* a finished run of app.py in which every source had more candidates than
\* its cap and contributed exactly its cap
C1_Witness ==
    /\ pc = "done"
    /\ prog = "app"
    /\ \A s \in Sources :
         /\ Len(listing[s].urls) > Cap(prog, s)
         /\ RecordsOf(s) = Cap(prog, s)

\* C2: once a source has as many records as its cap, no article of that
\* source is requested any more, whatever candidates remain.
C2_NoExtractionAfterCap ==
    [][\A s \in Sources :
         RecordsOf(s) >= Cap(prog, s)
           => CountUrls(requests', s) = CountUrls(requests, s)]_vars

\* the first source reached its cap with candidates left, and the run went
\* on to the next source
C2_Witness ==
    /\ RecordsOf(1) = Cap(prog, 1)
    /\ CountUrls(requests, 1) < Len(listing[1].urls)
    /\ src > 1

\* a city or locality value that is a list of real values or ["unknown"]
WellFormedField(v) ==
    /\ v.t = "list"
    /\ v.items # <<>>
    /\ \/ v = UnknownList
       \/ \A i \in 1..Len(v.items) :
            v.items[i].t = "str" /\ Lower(v.items[i].s) # S_unknown

\* C3: in every record of fetch_news and in every value get_city returns,
\* city and locality are non-empty lists: real values none of which is
\* "unknown" in any letter case, or exactly ["unknown"].
C3_CityLocalityWellFormed ==
    /\ prog = "app" =>
         \A i \in 1..Len(news_items) :
           WellFormedField(news_items[i].city)
           /\ WellFormedField(news_items[i].locality)
    /\ fn = "get_city" =>
         WellFormedField(ret.val.city) /\ WellFormedField(ret.val.locality)

\* the value get_city decodes for a key of the answer
Decoded(doc, key) == Get(doc, key, UnknownList)

IsStringList(v) ==
    v.t = "list" /\ \A i \in 1..Len(v.items) : v.items[i].t = "str"

\* the sentinel-collapse rule as the specification words it
RuleResult(v) ==
    IF v.items = <<>>
       \/ \E i \in 1..Len(v.items) :
            v.items[i].t = "str" /\ Lower(v.items[i].s) = S_unknown
    THEN UnknownList
    ELSE v

\* a call of get_city whose answer decodes to a JSON object
DecodedCall ==
    /\ fn = "get_city"
    /\ arg_text # <<>>
    /\ arg_response.kind = "json"
    /\ arg_response.json.t = "dict"

C5_ClassifierFallback ==
    fn = "extract_names_from_text" =>
      /\ ~ret.exc
      /\ ret.val.news_type =
           IF \/ arg_text = <<>>
              \/ arg_response.kind # "json"
              \/ arg_response.json.t # "dict"
              \/ "news_type" \notin arg_response.json.has
           THEN StrV(S_Unknown)
           ELSE arg_response.json.news_type

\* an answer that is no JSON, classified "Unknown"
C5_Witness ==
    /\ fn = "extract_names_from_text"
    /\ arg_text # <<>>
    /\ arg_response = LLMNotJson
    /\ ret = Ok(NamesDefault)

\* what a source contributes by itself: the first cap of its candidates
\* that have a text, in the candidates' order
Expected(s) ==
    LET urls == listing[s].urls
        ok == {i \in 1..Len(urls) : Extractable(urls[i])}
        upto(i) == Cardinality({j \in ok : j <= i})
        kept == {i \in ok : upto(i) <= Cap(prog, s)}
        n == Cardinality(kept)
    IN [k \in 1..n |-> urls[CHOOSE i \in kept : upto(i) = k]]

\* C6: a source whose listing fetch fails (an exception or a status other
\* than 200) contributes no record; the run goes on to the other sources,
\* and each of them contributes what it contributes by itself.
C6_ListingFailureIsolated ==
    \A f \in Sources :
      listing[f].status = "failed" =>
        /\ RecordsOf(f) = 0
        /\ pc # "raised"
        /\ pc = "done" \/ src > f
        /\ pc = "done" =>
             \A s \in Sources :
               /\ listing[s].status # "pending"
               /\ listing[s].status = "ok" => RecordUrls(s) = Expected(s)

\* a finished run of app.py whose feed failed while the first and the third
\* source contributed their caps
C6_Witness ==
    /\ pc = "done"
    /\ prog = "app"
    /\ listing[2].status = "failed"
    /\ RecordsOf(1) = Cap(prog, 1)
    /\ RecordsOf(3) = Cap(prog, 3)

\* the keys of a record of app.py / of main.py
RecordKeys(p) ==
    IF p = "app"
    THEN {"news_url", "summary", "city", "locality", "news_type", "date"}
    ELSE {"news_url", "summary", "city_locality", "date"}

\* no run has ended by an exception; every requested article that has a
\* text has its one record, in order; every record has all its fields
EveryTextHasItsRecord ==
    /\ pc # "raised"
    /\ \A s \in Sources :
         RecordUrls(s) = SelectSeq(UrlsOfSource(requests, s), Extractable)
    /\ \A i \in 1..Len(news_items) :
         /\ DOMAIN news_items[i] = RecordKeys(prog)
         /\ news_items[i].date = Today

\* C7: no failure of an article fetch, a selector or an LLM call aborts the
\* run: fetch_news ends and returns its list, and every article whose text
\* was extracted has exactly one complete record.
C7_NoFailureAbortsRun == []EveryTextHasItsRecord /\ <>(pc = "done")

\* a finished run holding the record of an article whose summary call failed
C7_Witness ==
    /\ pc = "done"
    /\ prog = "app"
    /\ last_responses.sum = SumError
    /\ \E i \in 1..Len(news_items) : news_items[i].summary = S_ErrorSummary

\* C8: when the summary call fails for an article whose classification and
\* location extraction succeeded, the record keeps the classified news_type
\* and the extracted city and locality.
C8_SummaryFailureKeepsOtherFields ==
    (/\ prog = "app"
     /\ news_items # <<>>
     /\ last_responses.sum.kind \in {"error", "no_text"}
     /\ ~extract_names_from_text_try(<<"a">>, last_responses.cls).exc
     /\ ~get_city_try(<<"a">>, last_responses.loc).exc)
    => LET record == news_items[Len(news_items)]
           names == extract_names_from_text_try(<<"a">>, last_responses.cls).val
           places == get_city_try(<<"a">>, last_responses.loc).val
       IN /\ record.news_type = names.news_type
          /\ record.city = places.city
          /\ record.locality = places.locality

\* C9: the normalisation is idempotent, and its result holds no newline, no
\* bracket and no whitespace at either end.
C9_NormalizeIdempotent ==
    fn = "NormalizeText" =>
      /\ NormalizeText(ret) = ret
      /\ \A i \in 1..Len(ret) : ret[i] # "\n" /\ ret[i] \notin Brackets
      /\ ret # <<>> => ret[1] \notin Whitespace /\ ret[Len(ret)] \notin Whitespace

\* a text with a blank, a bracket and a newline around one letter
C9_Witness ==
    /\ fn = "NormalizeText"
    /\ arg_text = <<"(", " ", "a", "\n">>
    /\ ret = <<"a">>

\* the records the lines of an answer make, said without the loop: one
\* record for the field lines before the first summary line, if any, and
\* one for each summary line, holding the fields of the lines up to the
\* next summary line, the last line of a field giving its value
ClassOfLine == [l \in AnswerLines |-> LineClass(l)]

ValueOfLine == [l \in AnswerLines |-> LineValue(l)]

SummaryLines == {i \in 1..Len(lines) : ClassOfLine[lines[i]] = "summary"}

GroupEnd(i) ==
    IF \E j \in SummaryLines : j > i
    THEN (CHOOSE j \in SummaryLines :
            j > i /\ \A k \in SummaryLines : k > i => j <= k) - 1
    ELSE Len(lines)

\* the fields of the lines i..j, the last line of each field winning
GroupFields(i, j) ==
    LET fields == {ClassOfLine[lines[k]] : k \in i..j} \ {"none", "summary"}
        last(f) == CHOOSE k \in i..j :
                      /\ ClassOfLine[lines[k]] = f
                      /\ \A m \in i..j : ClassOfLine[lines[m]] = f => m <= k
    IN [f \in fields |-> ValueOfLine[lines[last(f)]]]

GroupRecord(i) ==
    LET rest == GroupFields(i + 1, GroupEnd(i)) IN
    [f \in DOMAIN rest \cup {"summary", "city"} |->
       IF f = "summary" THEN ValueOfLine[lines[i]]
       ELSE IF f = "city" THEN p_city
       ELSE rest[f]]

LeadingFields == GroupFields(1, GroupEnd(0))

ExpectedRecords ==
    LET lead == IF DOMAIN LeadingFields # {} THEN <<LeadingFields>> ELSE <<>>
        n == Cardinality(SummaryLines)
        nth(k) == CHOOSE i \in SummaryLines :
                     Cardinality({j \in SummaryLines : j <= i}) = k
    IN lead \o [k \in 1..n |-> GroupRecord(nth(k))]

S_Flood ==
    <<"F", "l", "o", "o", "d", " ", "i", "n", " ", "S", "e", "c", "t", "o", "r",
      " ", "1", "2">>
S_Sector12 == <<"S", "e", "c", "t", "o", "r", " ", "1", "2">>
S_Metro == <<"M", "e", "t", "r", "o", " ", "d", "e", "l", "a", "y">>
S_0803 == <<"2", "0", "2", "5", "-", "0", "8", "-", "0", "3">>
S_0804 == <<"2", "0", "2", "5", "-", "0", "8", "-", "0", "4">>

\* the two records of the parsing example
ExampleRecords ==
    << [summary |-> S_Flood, city |-> p_city, locality |-> S_Sector12,
        date |-> S_0803],
       [summary |-> S_Metro, city |-> p_city, date |-> S_0804] >>

\* C10: a summary line closes and emits the record under construction
\* before starting the next one, and the record in progress at the end of
\* the input is emitted, so the fields between two summary lines belong to
\* the earlier one; the five-line example gives exactly its two records.
C10_SummaryClosesRecord ==
    (p_pc = "returned" /\ lines # <<>>) =>
      /\ returned.news = ExpectedRecords
      /\ p_result_text = ExampleText => returned.news = ExampleRecords

\* the example parsed to its end
C10_Witness ==
    /\ p_pc = "returned"
    /\ p_result_text = ExampleText
    /\ Len(returned.news) = 2
    /\ returned.news[1].date = S_0803

\* the keywords in the order the parser tests them
Keywords == <<S_summary, S_locality, S_source, S_news_type, S_date>>

KeywordFields == <<"summary", "locality", "source", "news_type", "date">>

\* the keywords occurring anywhere in the lower-cased line
KeywordsOfLine ==
    [l \in AnswerLines |-> {k \in 1..5 : Contains(Lower(l), Keywords[k])}]

KeywordsIn(line) == KeywordsOfLine[line]

\* the first of them in the order of the tests
FirstKeyword(line) ==
    CHOOSE k \in KeywordsIn(line) : \A j \in KeywordsIn(line) : k <= j

\* the record a summary line starts
StartedBy(line) ==
    [f \in {"summary", "city"} |->
       IF f = "summary" THEN ValueOfLine[line] ELSE p_city]

\* C11: a line is classified by the first keyword, in the order summary,
\* locality, source, news_type, date, found anywhere in the lower-cased
\* line; a line with several keywords sets the field of the earliest one
\* only, and a line with "summary" anywhere starts a new record.
C11_FirstKeywordDecides ==
    [][(p_pc = "parse" /\ li' = li + 1 /\ KeywordsIn(lines[li]) # {}) =>
         LET line == lines[li]
             field == KeywordFields[FirstKeyword(line)]
         IN IF field = "summary"
            THEN /\ current' = StartedBy(line)
                 /\ Len(parsed_news') =
                      Len(parsed_news) + (IF DOMAIN current # {} THEN 1 ELSE 0)
            ELSE /\ DOMAIN current' = DOMAIN current \cup {field}
                 /\ current'[field] = ValueOfLine[line]
                 /\ \A f \in DOMAIN current \ {field} : current'[f] = current[f]
                 /\ parsed_news' = parsed_news]_vars

\* the line "Source: summary of events" has closed a record and started one
C11_Witness ==
    /\ p_pc = "parse"
    /\ li > 2
    /\ lines[li - 1] = L_SourceSummary
    /\ Len(parsed_news) = 1
    /\ DOMAIN current = {"summary", "city"}
    /\ current.summary =
         <<"s", "u", "m", "m", "a", "r", "y", " ", "o", "f", " ", "e", "v", "e",
           "n", "t", "s">>

\* C12: a line with none of the five keywords leaves the record under
\* construction and the emitted records as they are; a field other than
\* summary met a second time in a record takes the later value, and no
\* record is emitted for it.
C12_IgnoredLinesAndOverwrite ==
    [][(p_pc = "parse" /\ li' = li + 1) =>
         LET line == lines[li] IN
         /\ KeywordsIn(line) = {} =>
              current' = current /\ parsed_news' = parsed_news
         /\ (/\ KeywordsIn(line) # {}
             /\ FirstKeyword(line) # 1
             /\ KeywordFields[FirstKeyword(line)] \in DOMAIN current) =>
              /\ current' =
                   [current EXCEPT ![KeywordFields[FirstKeyword(line)]] =
                                      ValueOfLine[line]]
              /\ parsed_news' = parsed_news]_vars

\* two locality lines with a line of prose between them: the record holds
\* the later locality and nothing was emitted
C12_Witness ==
    /\ p_pc = "parse"
    /\ lines = <<L_LocalitySector, L_Prose, L_LocalityNoida>>
    /\ li = 4
    /\ current = [locality |-> <<"N", "o", "i", "d", "a">>]
    /\ parsed_news = <<>>

\* no entry of a sequence occurs twice
NoRepeat(seq) == \A i, j \in 1..Len(seq) : seq[i] = seq[j] => i = j

\* C13: for every discovery strategy, no URL occurs twice among a source's
\* candidates, no article is requested twice, and no two records of a
\* source have the same news_url.
C13_CandidatesDeduplicated ==
    \A s \in Sources :
      /\ NoRepeat(listing[s].urls)
      /\ NoRepeat(UrlsOfSource(requests, s))
      /\ NoRepeat(RecordUrls(s))

\* C14: through the response model, "no news found" and the error outcome
\* differ: no news is an empty news list with no error message, an
\* exception is an empty news list with an error message that is not
\* empty, and the operation never ends in a server error.
C14_NoNewsAndErrorDistinguishable ==
    p_pc = "responded" =>
      /\ sent.status = 200
      /\ returned.error = <<>> => "error" \notin sent.keys
      /\ returned.error # <<>> =>
           /\ sent.news = <<>>
           /\ "error" \in sent.keys
           /\ sent.error # <<>>

\* C15: every record the freeform parser returns carries a date; a record
\* with no date line before the next summary line or the end of the input
\* has the run's current date.
C15_EveryRecordHasDate ==
    (p_pc = "returned" /\ lines # <<>>) =>
      \A i \in 1..Len(returned.news) :
        /\ "date" \in DOMAIN returned.news[i]
        /\ "date" \notin DOMAIN ExpectedRecords[i] =>
             returned.news[i].date = Today

\* the positions of a source's candidates whose article has a text
ExtractablePositions(s) ==
    {i \in 1..Len(listing[s].urls) : Extractable(listing[s].urls[i])}

Min(a, b) == IF a <= b THEN a ELSE b

\* how far a source's loop scans: up to the candidate that gives the record
\* reaching the cap, or to the end of the candidates
ScannedUpTo(s) ==
    LET ok == ExtractablePositions(s) IN
    IF Cardinality(ok) >= Cap(prog, s)
    THEN CHOOSE i \in ok : Cardinality({j \in ok : j <= i}) = Cap(prog, s)
    ELSE Len(listing[s].urls)

\* C16: a source whose listing was fetched and whose loop has ended has
\* contributed min(cap, number of its candidates with a text) records: a
\* candidate without a text is passed over without using up the cap, and
\* the scan goes on to the cap or to the end of the candidates.
C16_RecordsAreMinOfCapAndExtractable ==
    \A s \in Sources :
      (listing[s].status = "ok" /\ (pc = "done" \/ src > s)) =>
        /\ RecordsOf(s) = Min(Cap(prog, s), Cardinality(ExtractablePositions(s)))
        /\ UrlsOfSource(requests, s) = SubSeq(listing[s].urls, 1, ScannedUpTo(s))

\* the third source of app.py met an article without a text among its first
\* candidates, went on past it and contributed its cap of records
C16_Witness ==
    /\ pc = "done"
    /\ prog = "app"
    /\ listing[3].status = "ok"
    /\ \E i \in 1..Cap(prog, 3) : i \notin ExtractablePositions(3)
    /\ RecordsOf(3) = Cap(prog, 3)
    /\ CountUrls(requests, 3) = Cap(prog, 3) + 1

QuoteComma == {"\"", ","}

\* v is t with the longest run of characters of chars taken off each end
IsTrimOf(v, t, chars) ==
    \E a \in 0..Len(t) :
      /\ a + Len(v) <= Len(t)
      /\ SubSeq(t, a + 1, a + Len(v)) = v
      /\ \A i \in 1..a : t[i] \in chars
      /\ \A i \in (a + Len(v) + 1)..Len(t) : t[i] \in chars
      /\ v # <<>> => (v[1] \notin chars /\ v[Len(v)] \notin chars)

\* the pieces of a text
Pieces(t) == {SubSeq(t, i, j) : i \in 1..(Len(t) + 1), j \in 0..Len(t)}

\* the text after the first colon of a line; a line without a colon has none
TextAfterFirstColon(line) ==
    LET colons == {i \in 1..Len(line) : line[i] = ":"} IN
    IF colons = {} THEN <<>>
    ELSE SubSeq(line, (CHOOSE i \in colons : \A j \in colons : i <= j) + 1,
                Len(line))

\* the text a line's value is cut from: what follows the first colon, or
\* the whole line when it has no colon
ValueText(line) ==
    IF \E i \in 1..Len(line) : line[i] = ":" THEN TextAfterFirstColon(line)
    ELSE line

\* a text with the whitespace at its ends trimmed
WithoutOuterSpace(t) == CHOOSE w \in Pieces(t) : IsTrimOf(w, t, Whitespace)

AfterColonOfLine ==
    [l \in AnswerLines |-> WithoutOuterSpace(TextAfterFirstColon(l))]

ValueTextOfLine == [l \in AnswerLines |-> WithoutOuterSpace(ValueText(l))]

\* the line the loop has just handled
LastLine == lines[li - 1]

\* the field a line is stored under, "none" for a line without a keyword
FieldOf(line) ==
    IF KeywordsIn(line) = {} THEN "none" ELSE KeywordFields[FirstKeyword(line)]

\* C17 (as stated): the value stored for a classified line is the text
\* after the line's first colon with only trailing quote and comma
\* characters trimmed, also for a line with no colon and for a value that
\* starts with a quote or comma.
C17_OnlyTrailingTrimmed ==
    (p_pc = "parse" /\ li > 1 /\ FieldOf(LastLine) # "none") =>
      \E n \in 0..Len(AfterColonOfLine[LastLine]) :
        /\ current[FieldOf(LastLine)] = SubSeq(AfterColonOfLine[LastLine], 1, n)
        /\ \A i \in (n + 1)..Len(AfterColonOfLine[LastLine]) :
             AfterColonOfLine[LastLine][i] \in QuoteComma
        /\ n > 0 => AfterColonOfLine[LastLine][n] \notin QuoteComma

\* C17 (amended): the value stored for a classified line is the text after
\* the line's first colon, or the whole line when it has no colon, with the
\* whitespace around it trimmed and then the quote and comma characters at
\* both of its ends trimmed.
C17_ValueTrimmedAtBothEnds ==
    (p_pc = "parse" /\ li > 1 /\ FieldOf(LastLine) # "none") =>
      IsTrimOf(current[FieldOf(LastLine)], ValueTextOfLine[LastLine],
               QuoteComma)

\* a date line whose value starts with a quote and a comma, and a date line
\* with no colon, have been stored
C17_Witness ==
    /\ p_pc = "parse"
    /\ li = 3
    /\ lines = <<L_NoColonDate, L_QuotedDate>>
    /\ current = [date |-> <<"2", "0", "2", "5">>]

\* new is old, or old with one element appended at its end
GrowsByAppend(old, new) ==
    /\ Len(new) \in {Len(old), Len(old) + 1}
    /\ \A i \in 1..Len(old) : new[i] = old[i]

\* C18: in fetch_news and in the freeform parser the result sequence only
\* grows by appending at its end; a record of fetch_news has all its fields
\* when it is appended, and every record already in a result sequence keeps
\* all its field values through every later step (a field line after a
\* record's emission does not alter the emitted record).
C18_AppendOnlyAndNeverMutated ==
    [][/\ GrowsByAppend(news_items, news_items')
       /\ \A i \in (Len(news_items) + 1)..Len(news_items') :
            DOMAIN news_items'[i] = RecordKeys(prog)
       /\ GrowsByAppend(parsed_news, parsed_news')
       /\ p_pc' = "returned" => returned'.news = parsed_news']_vars

\* the parser has emitted the first record and then stored a date line in
\* the second, and the emitted record has no date
C18_Witness ==
    /\ p_pc = "parse"
    /\ lines = <<L_SummaryFlood, L_SummaryMetro, L_Date03>>
    /\ li = 4
    /\ Len(parsed_news) = 1
    /\ DOMAIN parsed_news[1] = {"summary", "city"}
    /\ "date" \in DOMAIN current

\* the number of summary lines of the input
NumSummaryLines ==
    Cardinality({i \in 1..Len(lines) : FieldOf(lines[i]) = "summary"})

\* a field line other than a summary line comes before the first summary line
HasLeadingFieldLine ==
    \E i \in 1..Len(lines) :
      /\ FieldOf(lines[i]) \notin {"none", "summary"}
      /\ \A j \in 1..(i - 1) : FieldOf(lines[j]) # "summary"

\* a record with a summary and the city of the query
HasSummaryAndCity(r) ==
    /\ {"summary", "city"} \subseteq DOMAIN r
    /\ r.city = p_city

\* C19: no record the freeform parser emits is empty; every emitted record
\* other than possibly the first has a summary and the query's city; the
\* first lacks them only when a non-summary field line comes before the
\* first summary line; and the number of records is the number of summary
\* lines, plus one exactly when there is such a leading field line.
C19_RecordsOfTheParser ==
    (p_pc = "returned" /\ lines # <<>>) =>
      /\ \A i \in 1..Len(returned.news) : DOMAIN returned.news[i] # {}
      /\ \A i \in 2..Len(returned.news) : HasSummaryAndCity(returned.news[i])
      /\ \A i \in 1..Len(returned.news) :
           ~HasSummaryAndCity(returned.news[i]) =>
             (i = 1 /\ HasLeadingFieldLine)
      /\ Len(returned.news) =
           NumSummaryLines + (IF HasLeadingFieldLine THEN 1 ELSE 0)

\* a locality line before the only summary line: two records, the first
\* without summary and city
C19_Witness ==
    /\ p_pc = "returned"
    /\ lines = <<L_LocalitySector, L_SummaryMetro>>
    /\ Len(returned.news) = 2
    /\ DOMAIN returned.news[1] = {"locality"}
    /\ HasSummaryAndCity(returned.news[2])

=============================================================================
